---- MODULE Spec2Model ----
(***************************************************************************)
(* Function parsing of the oxc parser (crates/oxc_parser/src/js/function.rs)*)
(* as a state machine.  The recursive descent is made explicit as a call   *)
(* stack of frames; every production is a set of steps between two token   *)
(* reads.  The token source is lazy: the kind of the current token is      *)
(* drawn from Kinds when the parser first looks at it, and so is its       *)
(* "starts on a new line" flag; both are kept while the token is current.  *)
(* This quantifies over every token stream of at most MaxTokens tokens;    *)
(* Scenarios adds a few longer, fixed streams.                             *)
(* A second specification, LintSpec, is ESLintConfig::override_rules of    *)
(* the linter (crates/oxc_linter/src/config/mod.rs): one step per visit of *)
(* its loop over the configured rule names, and the final update of the    *)
(* rule set.                                                               *)
(***************************************************************************)
EXTENDS Integers, Sequences, FiniteSets, TLC

\* ------------------------------------------------------------------ bounds
MaxTokens == 5

\* entries of the "rules" object of a configuration file
MaxConfigRules == 2

\* --------------------------------------------------------------- constants
\* Span::new(span, span + 5): the width of the `yield` keyword
YieldSpanLen == 5

\* ------------------------------------------------------------------ tokens
Kinds ==
  {"Function", "Async", "Await", "Yield", "Ident", "This", "Star",
   "LParen", "RParen", "LCurly", "RCurly", "RBrack",
   "Semicolon", "Comma", "Colon", "Dot3", "Eof"}

\* Kind::is_reserved_keyword, restricted to Kinds
is_reserved_keyword(kind) == kind \in {"Function", "This"}

\* Kind::is_binding_identifier, restricted to Kinds
is_binding_identifier(kind) == kind \in {"Ident", "Async", "Await", "Yield"}

\* ----------------------------------------------------------------- context
Flags == {"In", "Await", "Yield", "Return"}

has_in(c) == "In" \in c
has_await(c) == "Await" \in c
has_yield(c) == "Yield" \in c

and_in(c, b) == IF b THEN c \cup {"In"} ELSE c \ {"In"}
and_await(c, b) == IF b THEN c \cup {"Await"} ELSE c \ {"Await"}
and_yield(c, b) == IF b THEN c \cup {"Yield"} ELSE c \ {"Yield"}
union_yield_if(c, b) == IF b THEN c \cup {"Yield"} ELSE c

\* ------------------------------------------------------- enumerated inputs
FunctionKinds == {"Declaration", "DefaultExport", "Expression", "TSDeclaration"}

StatementContexts == {"StatementList", "If", "For"}

is_single_statement(s) == s # "StatementList"

\* ModifierKind values, in source order of appearance
ModifierOrder == <<"declare", "async", "abstract", "readonly">>

ModifierKinds == {ModifierOrder[i] : i \in 1..Len(ModifierOrder)}

\* the modifier sets handed to parse_ts_function_impl
ModifierSets ==
  {{}, {"declare"}, {"async", "abstract"}, {"declare", "abstract", "readonly"}}

\* is_id_required also matching DefaultExport
is_id_required_DefaultExportToo(func_kind) == func_kind \in {"Declaration", "DefaultExport"}

\* FunctionKind::is_id_required
is_id_required(func_kind) == func_kind = "Declaration"

\* FunctionKind::is_expression
is_expression(func_kind) == func_kind = "Expression"

\* ------------------------------------------------------------------- state
VARIABLES
  is_ts,    \* ParserImpl::is_ts, fixed per parser instance
  ctx,      \* ParserImpl::ctx, the live Context value
  cur,      \* the current token, as far as the parser has looked at it
  budget,   \* tokens the source can still produce before end of input
  script,   \* kinds of the tokens that come next, when the stream is fixed
  errors,   \* ParserImpl::errors, the recoverable diagnostics in order
  fatal,    \* the first fatal error, kind "none" when there is none
  stack,    \* call stack of production frames
  ret,      \* value handed back by the production that returned last
  phase,    \* "start" | "running" | "done"
  rules,               \* ESLintConfig::rules, the configured rules in file order
  rules_for_override,  \* the linter's rule set override_rules works on
  rules_to_replace,    \* override_rules: let mut rules_to_replace
  rules_to_remove,     \* override_rules: let mut rules_to_remove
  pending,             \* rule names of the lookup the loop has not visited
  lint_pc              \* "off" | "start" | "loop" | "done"

\* the state of the linter configuration (crates/oxc_linter/src/config/mod.rs)
lint_vars == <<rules, rules_for_override, rules_to_replace, rules_to_remove,
               pending, lint_pc>>

\* the state of the parser
parser_vars == <<is_ts, ctx, cur, budget, script, errors, fatal, stack, ret, phase>>

vars == <<parser_vars, lint_vars>>

NoRet == [proc |-> "none"]

None == "none"

NoFatal == [kind |-> "none"]

has_fatal_error == fatal.kind # "none"

\* --------------------------------------------------------- cursor helpers
\* a current token whose kind the parser has not looked at yet
Unread == [kind |-> "unread", nl |-> "unknown"]

\* the current token may be of kind k
Src(k) ==
  IF cur.kind # "unread" THEN k = cur.kind
  ELSE IF script # <<>> THEN k = Head(script)
  ELSE IF budget = 0 THEN k = "Eof"
  ELSE k \in Kinds

\* the source once the current token's kind k is known
Drawn(k) ==
  IF cur.kind # "unread" THEN UNCHANGED <<budget, script>>
  ELSE IF script # <<>> THEN budget' = budget /\ script' = Tail(script)
  ELSE /\ budget' = IF k = "Eof" THEN 0 ELSE budget - 1
       /\ script' = script

\* the parser looked at the current token, of kind k, and left it
Keep(k) ==
  /\ cur' = [kind |-> k, nl |-> cur.nl]
  /\ Drawn(k)

\* Token::is_on_new_line of the current token may be b
NlIs(b) == cur.nl = "unknown" \/ cur.nl = (IF b THEN "yes" ELSE "no")

NlOf(b) == IF b THEN "yes" ELSE "no"

\* as Keep, the token's is_on_new_line flag now known to be b
KeepNl(k, b) ==
  /\ cur' = [kind |-> k, nl |-> NlOf(b)]
  /\ Drawn(k)

\* bump_any / advance over the current token, of kind k; the end of input stays
Take(k) ==
  /\ cur' = IF k = "Eof" THEN [kind |-> k, nl |-> cur.nl] ELSE Unread
  /\ Drawn(k)

\* the step does not look at the current token
Stay == UNCHANGED <<cur, budget, script>>

\* set_fatal_error: keeps the first fatal error and moves the lexer to the end
SetFatal(what) ==
  /\ fatal' = IF has_fatal_error THEN fatal ELSE what
  /\ cur' = [kind |-> "Eof", nl |-> "unknown"]
  /\ budget' = 0
  /\ script' = <<>>

\* expect(kind) when the current token is of kind k: advance over kind, or
\* fail fatally
expect_at(kind, k) ==
  IF k = kind THEN Take(k) /\ UNCHANGED fatal
  ELSE SetFatal([kind |-> "expect_token", expected |-> kind])

expect(kind) == \E k \in Kinds : Src(k) /\ expect_at(kind, k)

\* can_insert_semicolon, for a current token of kind k with is_on_new_line nl
can_insert_semicolon(k, nl) == k \in {"Semicolon", "RCurly", "Eof"} \/ nl

\* asi(): consume `;`, accept an implicit terminator, or fail
asi ==
  \E k \in Kinds :
    /\ Src(k)
    /\ IF k = "Semicolon" THEN Take(k) /\ UNCHANGED fatal
       ELSE IF can_insert_semicolon(k, FALSE) THEN Keep(k) /\ UNCHANGED fatal
       ELSE \E nl \in BOOLEAN :
              /\ NlIs(nl)
              /\ IF can_insert_semicolon(k, nl)
                 THEN KeepNl(k, nl) /\ UNCHANGED fatal
                 ELSE SetFatal([kind |-> "auto_semicolon_insertion"])

\* ---------------------------------------------------------- frame helpers
Top == stack[Len(stack)]

Running(proc, pc) ==
  /\ phase = "running"
  /\ Top.proc = proc
  /\ Top.pc = pc

NewFrame(proc, args, l, c) ==
  [proc |-> proc, pc |-> "start", args |-> args, l |-> l,
   entry_ctx |-> c, entry_errs |-> Len(errors), entry_fatal |-> fatal]

Goto(pc, l) ==
  /\ stack' = [stack EXCEPT ![Len(stack)] = [@ EXCEPT !.pc = pc, !.l = l]]
  /\ ret' = NoRet
  /\ phase' = phase
  /\ UNCHANGED lint_vars

\* call proc(args) under context c, resuming the caller at pc
Call(pc, l, proc, args, pl, c) ==
  /\ stack' = Append([stack EXCEPT ![Len(stack)] = [@ EXCEPT !.pc = pc, !.l = l]],
                     NewFrame(proc, args, pl, c))
  /\ ret' = NoRet
  /\ phase' = phase
  /\ UNCHANGED lint_vars

Return(l, val) ==
  /\ stack' = SubSeq(stack, 1, Len(stack) - 1)
  /\ ret' = [proc |-> Top.proc, val |-> val, f |-> [Top EXCEPT !.l = l]]
  /\ phase' = IF Len(stack) = 1 THEN "done" ELSE "running"
  /\ UNCHANGED lint_vars

Returned(proc) == ret.proc = proc

NoArgs == [none |-> None]

NoLocals == [none |-> None]


\* ------------------------------------------------------------ diagnostics
Diag(kind) == [kind |-> kind]

\* verify_modifiers: one diagnostic per modifier outside the allowed mask
verify_modifiers(modifiers, allowed, diag) ==
  LET bad == SelectSeq(ModifierOrder, LAMBDA k : k \in modifiers /\ k \notin allowed)
  IN  [i \in 1..Len(bad) |-> [kind |-> diag, modifier |-> bad[i]]]

\* check_identifier: `await` / `yield` as a binding name where the context
\* makes them keywords
check_identifier(kind, c) ==
  IF kind = "Await" /\ has_await(c) THEN <<[kind |-> "identifier_async", name |-> "await"]>>
  ELSE IF kind = "Yield" /\ has_yield(c) THEN <<[kind |-> "identifier_generator", name |-> "yield"]>>
  ELSE <<>>

\* ------------------------------------------------------------------ nodes
NoParams == [kind |-> None, items |-> 0, rest |-> FALSE]

\* what unexpected() hands back: a node with every field absent or defaulted
DummyFunction ==
  [failed |-> TRUE, type |-> "Dummy", id |-> None, generator |-> FALSE,
   async |-> FALSE, declare |-> FALSE, type_parameters |-> FALSE,
   this_param |-> FALSE, params |-> NoParams, return_type |-> FALSE, body |-> FALSE]

\* ------------------------------------------------- parse_function, pure parts
\* EnterFunctionCtx without the and_yield step
EnterFunctionCtx_NoYield(c, async, generator) ==
  and_await(and_in(c, TRUE), async)

\* self.ctx.and_in(true).and_await(r#async).and_yield(generator)
EnterFunctionCtx(c, async, generator) ==
  and_yield(and_await(and_in(c, TRUE), async), generator)

\* RestoreFunctionCtx without the and_yield step
RestoreFunctionCtx_NoYield(c, saved) ==
  and_await(and_in(c, has_in(saved)), has_await(saved))

\* self.ctx.and_in(ctx.has_in()).and_await(ctx.has_await()).and_yield(ctx.has_yield())
RestoreFunctionCtx(c, saved) ==
  and_yield(and_await(and_in(c, has_in(saved)), has_await(saved)), has_yield(saved))

\* MissingBodyFails without the is_ts test
MissingBodyFails_AnyLanguage(ts, has_body) == ~has_body

\* if !self.is_ts && body.is_none() { return self.unexpected(); }
MissingBodyFails(ts, has_body) == ~ts /\ ~has_body

\* FunctionTypeOf with the TSDeclaration arm merged into the Declaration arm
FunctionTypeOf_TsDeclarationAsDeclaration(func_kind, has_body) ==
  CASE func_kind \in {"Declaration", "DefaultExport", "TSDeclaration"} ->
         IF ~has_body THEN "TSDeclareFunction" ELSE "FunctionDeclaration"
    [] func_kind = "Expression" ->
         IF ~has_body THEN "TSEmptyBodyFunctionExpression" ELSE "FunctionExpression"

\* FunctionTypeOf with the Expression arm ignoring the body
FunctionTypeOf_ExpressionIgnoresBody(func_kind, has_body) ==
  CASE func_kind \in {"Declaration", "DefaultExport"} ->
         IF ~has_body THEN "TSDeclareFunction" ELSE "FunctionDeclaration"
    [] func_kind = "Expression" -> "FunctionExpression"
    [] func_kind = "TSDeclaration" -> "TSDeclareFunction"

\* let function_type = match func_kind { ... }
FunctionTypeOf(func_kind, has_body) ==
  CASE func_kind \in {"Declaration", "DefaultExport"} ->
         IF ~has_body THEN "TSDeclareFunction" ELSE "FunctionDeclaration"
    [] func_kind = "Expression" ->
         IF ~has_body THEN "TSEmptyBodyFunctionExpression" ELSE "FunctionExpression"
    [] func_kind = "TSDeclaration" -> "TSDeclareFunction"

\* the condition guarding self.asi()
NeedsAsi(function_type) ==
  function_type = "TSDeclareFunction" \/ function_type = "TSEmptyBodyFunctionExpression"

\* the allowed mask without ModifierFlags::ASYNC
AllowedFunctionModifiers_DeclareOnly == {"declare"}

\* ModifierFlags::DECLARE | ModifierFlags::ASYNC
AllowedFunctionModifiers == {"declare", "async"}

FormalParametersLocals ==
  [first |-> TRUE, this_param |-> FALSE, list |-> 0, rest |-> FALSE,
   rest_pending |-> FALSE, elems |-> <<>>, closed |-> FALSE]

FunctionLocals ==
  [ctx |-> {}, type_parameters |-> FALSE, this_param |-> FALSE, params |-> NoParams,
   return_type |-> FALSE, body |-> FALSE, at_body |-> None, function_type |-> None,
   trace |-> <<>>]

FunctionArgs(id, async, generator, func_kind, param_kind, modifiers) ==
  [id |-> id, async |-> async, generator |-> generator, func_kind |-> func_kind,
   param_kind |-> param_kind, modifiers |-> modifiers]

\* ---------------------------------------------------------- parse_function
\* lines 110-113: save the context, derive the function's own, type parameters
parse_function_enter ==
  /\ Running("parse_function", "start")
  /\ LET a == Top.args
         c == EnterFunctionCtx(ctx, a.async, a.generator)
     IN  /\ ctx' = c
         /\ Call("params", [Top.l EXCEPT !.ctx = ctx, !.trace = Append(@, "type_parameters")],
                 "parse_ts_type_parameters", NoArgs, NoLocals, c)
  /\ Stay
  /\ UNCHANGED <<is_ts, errors, fatal>>

\* line 115
parse_function_params ==
  /\ Running("parse_function", "params")
  /\ Returned("parse_ts_type_parameters")
  /\ Call("return_type",
          [Top.l EXCEPT !.type_parameters = ret.val, !.trace = Append(@, "params")],
          "parse_formal_parameters", [params_kind |-> Top.args.param_kind],
          FormalParametersLocals, ctx)
  /\ Stay
  /\ UNCHANGED <<is_ts, ctx, errors, fatal>>

\* lines 117-118
parse_function_return_type ==
  /\ Running("parse_function", "return_type")
  /\ Returned("parse_formal_parameters")
  /\ Call("body",
          [Top.l EXCEPT !.this_param = ret.val.this_param, !.params = ret.val.params,
                        !.trace = Append(@, "return_type")],
          "parse_ts_return_type_annotation", NoArgs, NoLocals, ctx)
  /\ Stay
  /\ UNCHANGED <<is_ts, ctx, errors, fatal>>

\* line 120
parse_function_body_opt ==
  /\ Running("parse_function", "body")
  /\ Returned("parse_ts_return_type_annotation")
  /\ \E k \in Kinds :
       /\ Src(k)
       /\ Keep(k)
       /\ LET l == [Top.l EXCEPT !.return_type = ret.val, !.body = (k = "LCurly"),
                                 !.at_body = k, !.trace = Append(@, "body")]
          IN  IF k = "LCurly"
              THEN Call("after_body", l, "parse_function_body", NoArgs, [ctx |-> {}], ctx)
              ELSE Goto("after_body", l)
  /\ UNCHANGED <<is_ts, ctx, errors, fatal>>

\* lines 122-145: restore the context, fail on a missing body outside
\* TypeScript, derive the FunctionType
parse_function_after_body ==
  /\ Running("parse_function", "after_body")
  /\ Top.l.body => Returned("parse_function_body")
  /\ ctx' = RestoreFunctionCtx(ctx, Top.l.ctx)
  /\ LET l == [Top.l EXCEPT !.trace = Append(@, "restore")]
     IN  IF MissingBodyFails(is_ts, l.body)
         THEN /\ SetFatal([kind |-> "unexpected", by |-> "parse_function"])
              /\ Return(l, DummyFunction)
         ELSE LET ft == FunctionTypeOf(Top.args.func_kind, l.body)
                  l2 == [l EXCEPT !.function_type = ft, !.trace = Append(@, "derive")]
              IN  /\ Stay
                  /\ UNCHANGED fatal
                  /\ Goto(IF NeedsAsi(ft) THEN "asi" ELSE "verify", l2)
  /\ UNCHANGED <<is_ts, errors>>

\* lines 147-151
parse_function_asi ==
  /\ Running("parse_function", "asi")
  /\ asi
  /\ Goto("verify", [Top.l EXCEPT !.trace = Append(@, "asi")])
  /\ UNCHANGED <<is_ts, ctx, errors>>

\* lines 153-171
parse_function_finish ==
  /\ Running("parse_function", "verify")
  /\ errors' = errors \o verify_modifiers(Top.args.modifiers, AllowedFunctionModifiers,
                                          "modifier_cannot_be_used_here")
  /\ LET a == Top.args
         l == [Top.l EXCEPT !.trace = Append(@, "verify")]
     IN  Return(l,
           [failed |-> FALSE, type |-> l.function_type, id |-> a.id,
            generator |-> a.generator, async |-> a.async,
            declare |-> "declare" \in a.modifiers,
            type_parameters |-> l.type_parameters, this_param |-> l.this_param,
            params |-> l.params, return_type |-> l.return_type, body |-> l.body])
  /\ Stay
  /\ UNCHANGED <<is_ts, ctx, fatal>>

parse_function ==
  \/ parse_function_enter
  \/ parse_function_params
  \/ parse_function_return_type
  \/ parse_function_body_opt
  \/ parse_function_after_body
  \/ parse_function_asi
  \/ parse_function_finish

\* ------------------------------------------------------- parse_function_id
\* IdCheckCtx without the is_expression test
IdCheckCtx_AnyKind(c, func_kind, async, generator) ==
  and_yield(and_await(c, async), generator)

\* the context the identifier is checked against
IdCheckCtx(c, func_kind, async, generator) ==
  IF is_expression(func_kind) THEN and_yield(and_await(c, async), generator) ELSE c

\* what the missing-identifier branch does for the current token kind:
\* "name" (expected function name), "ident" (expect_without_advance(Ident))
\* or "silent"
MissingIdAction(func_kind, kind) ==
  IF is_id_required(func_kind)
  THEN IF kind = "LParen" THEN "name"
       ELSE IF is_reserved_keyword(kind) THEN "ident"
       ELSE "silent"
  ELSE "silent"

parse_function_id ==
  /\ Running("parse_function_id", "start")
  /\ \E kind \in Kinds :
       /\ Src(kind)
       /\ LET a == Top.args
              l == [checked |-> IdCheckCtx(ctx, a.func_kind, a.async, a.generator),
                    kind |-> kind]
          IN  IF is_binding_identifier(kind)
              THEN /\ errors' = errors \o check_identifier(kind, l.checked)
                   /\ Take(kind)
                   /\ UNCHANGED fatal
                   /\ Return(l, kind)
              ELSE CASE MissingIdAction(a.func_kind, kind) = "name" ->
                          /\ errors' = Append(errors, Diag("expect_function_name"))
                          /\ Keep(kind)
                          /\ UNCHANGED fatal
                          /\ Return(l, None)
                     [] MissingIdAction(a.func_kind, kind) = "ident" ->
                          /\ errors' = errors
                          /\ SetFatal([kind |-> "expect_token", expected |-> "Ident"])
                          /\ Return(l, None)
                     [] MissingIdAction(a.func_kind, kind) = "silent" ->
                          /\ errors' = errors
                          /\ Keep(kind)
                          /\ UNCHANGED fatal
                          /\ Return(l, None)
  /\ UNCHANGED <<is_ts, ctx>>

\* ------------------------------- parse_function_impl and its two siblings
ImplLocals == [generator |-> FALSE, id_kind |-> None]

\* self.expect(Kind::Function)
ImplExpectFunction(proc) ==
  /\ Running(proc, "start")
  /\ expect("Function")
  /\ Goto("star", Top.l)
  /\ UNCHANGED <<is_ts, ctx, errors>>

\* let generator = self.eat(Kind::Star); then parse_function_id
ImplEatStar(proc, func_kind, async) ==
  /\ Running(proc, "star")
  /\ \E k \in Kinds :
       /\ Src(k)
       /\ IF k = "Star" THEN Take(k) ELSE Keep(k)
       /\ Call("fn", [Top.l EXCEPT !.generator = (k = "Star")], "parse_function_id",
               [func_kind |-> func_kind, async |-> async, generator |-> (k = "Star")],
               NoLocals, ctx)
  /\ UNCHANGED <<is_ts, ctx, errors, fatal>>

ImplCallFunction(proc, func_kind, async, modifiers) ==
  /\ Running(proc, "fn")
  /\ Returned("parse_function_id")
  /\ Call("ret", [Top.l EXCEPT !.id_kind = ret.f.l.kind], "parse_function",
          FunctionArgs(ret.val, async, Top.l.generator, func_kind, "FormalParameter", modifiers),
          FunctionLocals, ctx)
  /\ Stay
  /\ UNCHANGED <<is_ts, ctx, errors, fatal>>

ImplReturn(proc) ==
  /\ Running(proc, "ret")
  /\ Returned("parse_function")
  /\ Return(Top.l, ret.val)
  /\ Stay
  /\ UNCHANGED <<is_ts, ctx, errors, fatal>>

parse_function_impl ==
  \/ ImplExpectFunction("parse_function_impl")
  \/ /\ phase = "running"
     /\ ImplEatStar("parse_function_impl", Top.args.func_kind, Top.args.async)
  \/ /\ phase = "running"
     /\ ImplCallFunction("parse_function_impl", Top.args.func_kind, Top.args.async, {})
  \/ ImplReturn("parse_function_impl")

\* r#async comes from the modifiers
parse_ts_function_impl ==
  \/ ImplExpectFunction("parse_ts_function_impl")
  \/ /\ phase = "running"
     /\ ImplEatStar("parse_ts_function_impl", Top.args.func_kind,
                    "async" \in Top.args.modifiers)
  \/ /\ phase = "running"
     /\ ImplCallFunction("parse_ts_function_impl", Top.args.func_kind,
                         "async" \in Top.args.modifiers, Top.args.modifiers)
  \/ ImplReturn("parse_ts_function_impl")

parse_function_expression ==
  \/ ImplExpectFunction("parse_function_expression")
  \/ /\ phase = "running"
     /\ ImplEatStar("parse_function_expression", "Expression", Top.args.async)
  \/ /\ phase = "running"
     /\ ImplCallFunction("parse_function_expression", "Expression", Top.args.async, {})
  \/ ImplReturn("parse_function_expression")

\* -------------------------------------------------------------- parse_method
parse_method ==
  \/ /\ Running("parse_method", "start")
     /\ Call("ret", Top.l, "parse_function",
             FunctionArgs(None, Top.args.async, Top.args.generator, "Expression",
                          "UniqueFormalParameters", {}),
             FunctionLocals, ctx)
     /\ Stay
     /\ UNCHANGED <<is_ts, ctx, errors, fatal>>
  \/ ImplReturn("parse_method")

\* ------------------------------------------------ parse_function_declaration
\* RestrictedPositionDiag with the generator test before the async test
RestrictedPositionDiag_GeneratorFirst(stmt_ctx, decl) ==
  IF is_single_statement(stmt_ctx)
  THEN IF decl.generator THEN <<Diag("generator_function_declaration")>>
       ELSE IF decl.async THEN <<Diag("async_function_declaration")>>
       ELSE <<>>
  ELSE <<>>

\* the restricted-position check on the finished declaration
RestrictedPositionDiag(stmt_ctx, decl) ==
  IF is_single_statement(stmt_ctx)
  THEN IF decl.async THEN <<Diag("async_function_declaration")>>
       ELSE IF decl.generator THEN <<Diag("generator_function_declaration")>>
       ELSE <<>>
  ELSE <<>>

parse_function_declaration ==
  \/ /\ Running("parse_function_declaration", "start")
     /\ Call("check", Top.l, "parse_function_impl",
             [async |-> Top.args.async, func_kind |-> "Declaration"], ImplLocals, ctx)
     /\ Stay
     /\ UNCHANGED <<is_ts, ctx, errors, fatal>>
  \/ /\ Running("parse_function_declaration", "check")
     /\ Returned("parse_function_impl")
     /\ errors' = errors \o RestrictedPositionDiag(Top.args.stmt_ctx, ret.val)
     /\ Return(Top.l, [stmt |-> "FunctionDeclaration", decl |-> ret.val])
     /\ Stay
     /\ UNCHANGED <<is_ts, ctx, fatal>>

\* --------------------------------------------------- parse_formal_parameter
\* decorators and parameter modifiers are not drawn by the token source; the
\* binding pattern is a single binding identifier
parse_formal_parameter ==
  /\ Running("parse_formal_parameter", "start")
  /\ \E k \in Kinds :
       /\ Src(k)
       /\ IF is_binding_identifier(k)
          THEN Take(k) /\ UNCHANGED fatal
          ELSE SetFatal([kind |-> "unexpected", by |-> "parse_formal_parameter"])
       /\ Return(Top.l, is_binding_identifier(k))
  /\ UNCHANGED <<is_ts, ctx, errors>>

\* -------------------------------------------------- parse_formal_parameters
\* the closing token handed to parse_delimited_list_with_rest
ParamsClose == "RParen"

\* another diagnostic handed to parse_delimited_list_with_rest
ParamsRestDiag_BindingRest == "binding_rest_element_last"

\* the diagnostic handed to parse_delimited_list_with_rest
ParamsRestDiag == "rest_parameter_last"

\* one element of parse_delimited_list_with_rest, the current token being of
\* kind k: a rest element or a parameter; a rest element before it was not
\* the last entry
ListElement(l, k) ==
  /\ errors' = IF l.rest_pending THEN Append(errors, Diag(ParamsRestDiag)) ELSE errors
  /\ IF k = "Dot3"
     THEN /\ Take(k)
          /\ Goto("rest_name", [l EXCEPT !.rest_pending = FALSE])
     ELSE /\ Keep(k)
          /\ Call("elem_ret", [l EXCEPT !.rest_pending = FALSE],
                  "parse_formal_parameter", NoArgs, NoLocals, ctx)

\* lines 48-49
parse_formal_parameters_open ==
  /\ Running("parse_formal_parameters", "start")
  /\ expect("LParen")
  /\ Goto("this", Top.l)
  /\ UNCHANGED <<is_ts, ctx, errors>>

\* lines 50-51: the TypeScript `this` parameter
parse_formal_parameters_this ==
  /\ Running("parse_formal_parameters", "this")
  /\ IF is_ts
     THEN \E k \in Kinds :
            /\ Src(k)
            /\ IF k = "This"
               THEN Take(k) /\ Goto("this_comma", [Top.l EXCEPT !.this_param = TRUE])
               ELSE Keep(k) /\ Goto("list", Top.l)
     ELSE Stay /\ Goto("list", Top.l)
  /\ UNCHANGED <<is_ts, ctx, errors, fatal>>

\* lines 52-54
parse_formal_parameters_this_comma ==
  /\ Running("parse_formal_parameters", "this_comma")
  /\ \E k \in Kinds :
       /\ Src(k)
       /\ IF k # "RParen" THEN expect_at("Comma", k) ELSE Keep(k) /\ UNCHANGED fatal
  /\ Goto("list", Top.l)
  /\ UNCHANGED <<is_ts, ctx, errors>>

\* lines 59-63, parse_delimited_list_with_rest: loop head
parse_formal_parameters_list ==
  /\ Running("parse_formal_parameters", "list")
  /\ \E k \in Kinds :
       /\ Src(k)
       /\ IF k = ParamsClose \/ has_fatal_error
          THEN Keep(k) /\ UNCHANGED <<fatal, errors>> /\ Goto("rparen", Top.l)
          ELSE IF Top.l.first
          THEN UNCHANGED fatal /\ ListElement([Top.l EXCEPT !.first = FALSE], k)
          ELSE expect_at("Comma", k) /\ UNCHANGED errors /\ Goto("after_comma", Top.l)
  /\ UNCHANGED <<is_ts, ctx>>

\* parse_delimited_list_with_rest: after a separating comma
parse_formal_parameters_after_comma ==
  /\ Running("parse_formal_parameters", "after_comma")
  /\ \E k \in Kinds :
       /\ Src(k)
       /\ IF k = ParamsClose \/ has_fatal_error
          THEN Keep(k) /\ UNCHANGED errors /\ Goto("rparen", Top.l)
          ELSE ListElement(Top.l, k)
  /\ UNCHANGED <<is_ts, ctx, fatal>>

\* parse_delimited_list_with_rest: a parameter was parsed
parse_formal_parameters_elem_ret ==
  /\ Running("parse_formal_parameters", "elem_ret")
  /\ Returned("parse_formal_parameter")
  /\ Goto("list", [Top.l EXCEPT !.list = @ + 1, !.elems = Append(@, "param")])
  /\ Stay
  /\ UNCHANGED <<is_ts, ctx, errors, fatal>>

\* parse_rest_element: the binding after `...`
parse_formal_parameters_rest_name ==
  /\ Running("parse_formal_parameters", "rest_name")
  /\ \E k \in Kinds :
       /\ Src(k)
       /\ IF is_binding_identifier(k)
          THEN Take(k) /\ UNCHANGED fatal
          ELSE SetFatal([kind |-> "unexpected", by |-> "parse_rest_element"])
  /\ Goto("list", [Top.l EXCEPT !.rest = TRUE, !.rest_pending = TRUE,
                                !.elems = Append(@, "rest")])
  /\ UNCHANGED <<is_ts, ctx, errors>>

\* lines 64-67
parse_formal_parameters_close ==
  /\ Running("parse_formal_parameters", "rparen")
  /\ \E k \in Kinds :
       /\ Src(k)
       /\ expect_at("RParen", k)
       /\ Return([Top.l EXCEPT !.closed = (k = "RParen")],
            [this_param |-> Top.l.this_param,
             params |-> [kind |-> Top.args.params_kind, items |-> Top.l.list,
                         rest |-> Top.l.rest]])
  /\ UNCHANGED <<is_ts, ctx, errors>>

parse_formal_parameters ==
  \/ parse_formal_parameters_open
  \/ parse_formal_parameters_this
  \/ parse_formal_parameters_this_comma
  \/ parse_formal_parameters_list
  \/ parse_formal_parameters_after_comma
  \/ parse_formal_parameters_elem_ret
  \/ parse_formal_parameters_rest_name
  \/ parse_formal_parameters_close

\* ------------------------------------------------------ parse_function_body
\* ParserImpl::context(add_flags, remove_flags, cb): the context cb runs under
ContextEnter(c, add_flags, remove_flags) == (c \ remove_flags) \cup add_flags

parse_function_body ==
  \/ /\ Running("parse_function_body", "start")
     /\ expect("LCurly")
     /\ ctx' = ContextEnter(ctx, {"Return"}, {})
     /\ Call("end", [Top.l EXCEPT !.ctx = ctx], "parse_directives_and_statements",
             NoArgs, NoLocals, ctx')
     /\ UNCHANGED <<is_ts, errors>>
  \/ /\ Running("parse_function_body", "end")
     /\ Returned("parse_directives_and_statements")
     /\ ctx' = Top.l.ctx
     /\ expect("RCurly")
     /\ Return(Top.l, TRUE)
     /\ UNCHANGED <<is_ts, errors>>

\* --------------------------------------------------- parse_yield_expression
\* YieldDiag that never reports
YieldDiag_Never(ctx_has_yield) == <<>>

\* the diagnostic for `yield` where the context has no Yield
YieldDiag(ctx_has_yield) ==
  IF ~ctx_has_yield
  THEN <<[kind |-> "yield_expression", len |-> YieldSpanLen]>>
  ELSE <<>>

\* the token kinds that cannot start the argument
NotAssignmentExprKinds ==
  {"Semicolon", "Eof", "RCurly", "RParen", "RBrack", "Colon", "Comma"}

\* the argument condition without the delegate disjunct
ShouldParseArgument_NoDelegate(not_assignment_expr, delegate) == ~not_assignment_expr

\* the new-line test dropped
YieldContinues_Always(on_new_line) == TRUE

\* if !self.cur_token().is_on_new_line()
YieldContinues(on_new_line) == ~on_new_line

\* if !not_assignment_expr || delegate
ShouldParseArgument(not_assignment_expr, delegate) ==
  ~not_assignment_expr \/ delegate

YieldLocals ==
  [has_yield |-> FALSE, delegate |-> FALSE, after_nl |-> FALSE, next_kind |-> None,
   arg_kind |-> None]

YieldNode(delegate, argument) ==
  [type |-> "YieldExpression", delegate |-> delegate, argument |-> argument]

\* lines 289-295
parse_yield_expression_bump ==
  /\ Running("parse_yield_expression", "start")
  /\ \E k \in Kinds : Src(k) /\ k = "Yield" /\ Take(k)
  /\ errors' = errors \o YieldDiag(has_yield(ctx))
  /\ Goto("delegate", [Top.l EXCEPT !.has_yield = has_yield(ctx)])
  /\ UNCHANGED <<is_ts, ctx, fatal>>

\* lines 297-301: the token after `yield`, of kind k, its is_on_new_line
\* flag nl
parse_yield_expression_delegate ==
  /\ Running("parse_yield_expression", "delegate")
  /\ \E nl \in BOOLEAN, k \in Kinds :
       /\ NlIs(nl)
       /\ Src(k)
       /\ IF YieldContinues(nl)
          THEN /\ IF k = "Star" THEN Take(k) ELSE KeepNl(k, nl)
               /\ Goto("arg", [Top.l EXCEPT !.delegate = (k = "Star"), !.after_nl = nl])
          ELSE /\ KeepNl(k, nl)
               /\ Return([Top.l EXCEPT !.after_nl = nl, !.next_kind = k],
                         YieldNode(FALSE, FALSE))
  /\ UNCHANGED <<is_ts, ctx, errors, fatal>>

\* lines 302-314
parse_yield_expression_arg ==
  /\ Running("parse_yield_expression", "arg")
  /\ \E k \in Kinds :
       /\ Src(k)
       /\ Keep(k)
       /\ LET not_assignment_expr == k \in NotAssignmentExprKinds
              l == [Top.l EXCEPT !.arg_kind = k]
          IN  IF ShouldParseArgument(not_assignment_expr, l.delegate)
              THEN /\ ctx' = union_yield_if(ctx, TRUE)
                   /\ Call("arg_ret", l, "parse_assignment_expression_or_higher",
                           NoArgs, NoLocals, ctx')
              ELSE /\ ctx' = ctx
                   /\ Return(l, YieldNode(l.delegate, FALSE))
  /\ UNCHANGED <<is_ts, errors, fatal>>

\* lines 315-319
parse_yield_expression_arg_ret ==
  /\ Running("parse_yield_expression", "arg_ret")
  /\ Returned("parse_assignment_expression_or_higher")
  /\ ctx' = and_yield(ctx, Top.l.has_yield)
  /\ Return(Top.l, YieldNode(Top.l.delegate, TRUE))
  /\ Stay
  /\ UNCHANGED <<is_ts, errors, fatal>>

parse_yield_expression ==
  \/ parse_yield_expression_bump
  \/ parse_yield_expression_delegate
  \/ parse_yield_expression_arg
  \/ parse_yield_expression_arg_ret

\* --------------------------------------------------- at_function_with_async
\* the current token is of kind k; next and next_nl are the kind and the
\* is_on_new_line flag of the token the lookahead sees after it
at_function_with_async(k, next, next_nl) ==
  k = "Function" \/ (k = "Async" /\ next = "Function" /\ ~next_nl)

\* the lookahead of at_function_with_async once `async` is consumed: it draws
\* the next token's kind k and, for `function`, its is_on_new_line flag nl
AsyncLookahead(k, nl) ==
  /\ Src(k)
  /\ IF k = "Function" THEN NlIs(nl) /\ KeepNl(k, nl) ELSE nl = FALSE /\ Keep(k)

\* ------------------------------------- the productions around function.rs
\* parse_ts_type_parameters: the token source draws no `<`, so no type
\* parameter list is present
parse_ts_type_parameters ==
  /\ Running("parse_ts_type_parameters", "start")
  /\ Return(Top.l, FALSE)
  /\ Stay
  /\ UNCHANGED <<is_ts, ctx, errors, fatal>>

\* parse_ts_return_type_annotation: `:` Ident in TypeScript, nothing otherwise
parse_ts_return_type_annotation ==
  \/ /\ Running("parse_ts_return_type_annotation", "start")
     /\ IF is_ts
        THEN \E k \in Kinds :
               /\ Src(k)
               /\ IF k = "Colon"
                  THEN Take(k) /\ Goto("type", Top.l)
                  ELSE Keep(k) /\ Return(Top.l, FALSE)
        ELSE Stay /\ Return(Top.l, FALSE)
     /\ UNCHANGED <<is_ts, ctx, errors, fatal>>
  \/ /\ Running("parse_ts_return_type_annotation", "type")
     /\ expect("Ident")
     /\ Return(Top.l, TRUE)
     /\ UNCHANGED <<is_ts, ctx, errors>>

\* parse_directives_and_statements(false): statements up to `}` or the end
parse_directives_and_statements ==
  /\ Running("parse_directives_and_statements", "start")
  /\ \E k \in Kinds :
       /\ Src(k)
       /\ Keep(k)
       /\ IF k = "RCurly" \/ k = "Eof"
          THEN Return(Top.l, TRUE)
          ELSE Call("start", Top.l, "parse_statement", [stmt_ctx |-> "StatementList"],
                    NoLocals, ctx)
  /\ UNCHANGED <<is_ts, ctx, errors, fatal>>

\* parse_statement: function declarations, empty and expression statements
parse_statement ==
  \/ /\ Running("parse_statement", "start")
     /\ \E k \in Kinds :
          /\ Src(k)
          /\ CASE k = "Function" ->
                    /\ Keep(k)
                    /\ Call("ret", Top.l, "parse_function_declaration",
                            [async |-> FALSE, stmt_ctx |-> Top.args.stmt_ctx], NoLocals, ctx)
               [] k = "Async" ->
                    /\ Take(k)
                    /\ Goto("async", Top.l)
               [] k = "Semicolon" ->
                    /\ Take(k)
                    /\ Return(Top.l, TRUE)
               [] OTHER ->
                    /\ Keep(k)
                    /\ Call("asi", Top.l, "parse_assignment_expression_or_higher",
                            NoArgs, NoLocals, ctx)
     /\ UNCHANGED <<is_ts, ctx, errors, fatal>>
  \/ /\ Running("parse_statement", "async")
     /\ \E k \in Kinds, nl \in BOOLEAN :
          /\ AsyncLookahead(k, nl)
          /\ IF at_function_with_async("Async", k, nl)
             THEN Call("ret", Top.l, "parse_function_declaration",
                       [async |-> TRUE, stmt_ctx |-> Top.args.stmt_ctx], NoLocals, ctx)
             ELSE Goto("asi", Top.l)
     /\ UNCHANGED <<is_ts, ctx, errors, fatal>>
  \/ /\ Running("parse_statement", "asi")
     /\ asi
     /\ Return(Top.l, TRUE)
     /\ UNCHANGED <<is_ts, ctx, errors>>
  \/ /\ Running("parse_statement", "ret")
     /\ Return(Top.l, TRUE)
     /\ Stay
     /\ UNCHANGED <<is_ts, ctx, errors, fatal>>

\* parse_assignment_expression_or_higher: a yield expression, a function
\* expression or an identifier.  Outside a Yield context `yield` is either
\* tried as a yield expression or read as an identifier.
parse_assignment_expression_or_higher ==
  \/ /\ Running("parse_assignment_expression_or_higher", "start")
     /\ \E k \in Kinds :
          /\ Src(k)
          /\ CASE k = "Yield" ->
                    \/ /\ Keep(k) /\ UNCHANGED fatal
                       /\ Call("ret", Top.l, "parse_yield_expression", NoArgs,
                               YieldLocals, ctx)
                    \/ /\ ~has_yield(ctx)
                       /\ Take(k) /\ UNCHANGED fatal
                       /\ Return(Top.l, TRUE)
               [] k = "Function" ->
                    /\ Keep(k) /\ UNCHANGED fatal
                    /\ Call("ret", Top.l, "parse_function_expression", [async |-> FALSE],
                            ImplLocals, ctx)
               [] k = "Async" ->
                    /\ Take(k) /\ UNCHANGED fatal
                    /\ Goto("async", Top.l)
               [] k \in {"Ident", "Await"} ->
                    /\ Take(k) /\ UNCHANGED fatal
                    /\ Return(Top.l, TRUE)
               [] OTHER ->
                    /\ SetFatal([kind |-> "unexpected",
                                 by |-> "parse_assignment_expression_or_higher"])
                    /\ Return(Top.l, FALSE)
     /\ UNCHANGED <<is_ts, ctx, errors>>
  \/ /\ Running("parse_assignment_expression_or_higher", "async")
     /\ \E k \in Kinds, nl \in BOOLEAN :
          /\ AsyncLookahead(k, nl)
          /\ IF at_function_with_async("Async", k, nl)
             THEN Call("ret", Top.l, "parse_function_expression", [async |-> TRUE],
                       ImplLocals, ctx)
             ELSE Return(Top.l, TRUE)
     /\ UNCHANGED <<is_ts, ctx, errors, fatal>>
  \/ /\ Running("parse_assignment_expression_or_higher", "ret")
     /\ Return(Top.l, TRUE)
     /\ Stay
     /\ UNCHANGED <<is_ts, ctx, errors, fatal>>

\* ------------------------------------------------------------ entry points
Enter(proc, args, l) ==
  /\ phase = "start"
  /\ stack' = <<NewFrame(proc, args, l, ctx)>>
  /\ phase' = "running"
  /\ UNCHANGED <<is_ts, ctx, errors, fatal, ret>>
  /\ UNCHANGED lint_vars

Start_parse_function_declaration ==
  \E async \in BOOLEAN, stmt_ctx \in StatementContexts :
    /\ Enter("parse_function_declaration", [async |-> async, stmt_ctx |-> stmt_ctx],
             NoLocals)
    /\ Stay

Start_parse_function_impl ==
  \E async \in BOOLEAN :
    /\ Enter("parse_function_impl", [async |-> async, func_kind |-> "DefaultExport"],
             ImplLocals)
    /\ Stay

Start_parse_ts_function_impl ==
  \E func_kind \in {"Declaration", "TSDeclaration"}, modifiers \in ModifierSets :
    /\ Enter("parse_ts_function_impl", [func_kind |-> func_kind, modifiers |-> modifiers],
             ImplLocals)
    /\ Stay

Start_parse_function_expression ==
  \E async \in BOOLEAN :
    /\ Enter("parse_function_expression", [async |-> async], ImplLocals)
    /\ Stay

Start_parse_method ==
  \E async \in BOOLEAN, generator \in BOOLEAN :
    /\ Enter("parse_method", [async |-> async, generator |-> generator], NoLocals)
    /\ Stay

\* the caller has seen the `yield` token
Start_parse_yield_expression ==
  /\ Src("Yield")
  /\ Keep("Yield")
  /\ Enter("parse_yield_expression", NoArgs, YieldLocals)

\* ----------------------------------------------------------- specification
\* longer token streams: the rest parameter out of place, a function nested
\* in a generator, a delegating yield in a generator body
Scenarios ==
  {<<"LParen", "Ident", "Comma", "Dot3", "Ident", "Comma", "Ident", "RParen",
     "LCurly", "RCurly">>,
   <<"Function", "Star", "Ident", "LParen", "RParen", "LCurly",
     "Function", "Ident", "LParen", "RParen", "LCurly", "Yield", "RCurly", "RCurly">>,
   <<"Function", "Star", "Ident", "LParen", "RParen", "LCurly",
     "Yield", "Star", "Ident", "RCurly">>}

\* the context a top-level production starts in: outside any function body,
\* so without Return (a function body adds it for what is nested in it)
InitContexts == SUBSET {"In", "Await", "Yield"}

\* no configuration is being applied
LintIdle ==
  /\ rules = <<>>
  /\ rules_for_override = {}
  /\ rules_to_replace = <<>>
  /\ rules_to_remove = <<>>
  /\ pending = {}
  /\ lint_pc = "off"

Init ==
  /\ is_ts \in BOOLEAN
  /\ ctx \in InitContexts
  /\ cur = Unread
  /\ \/ budget = MaxTokens /\ script = <<>>
     \/ budget = 0 /\ script \in Scenarios
  /\ errors = <<>>
  /\ fatal = NoFatal
  /\ stack = <<>>
  /\ ret = NoRet
  /\ phase = "start"
  /\ LintIdle

Next ==
  \/ Start_parse_function_declaration
  \/ Start_parse_function_impl
  \/ Start_parse_ts_function_impl
  \/ Start_parse_function_expression
  \/ Start_parse_method
  \/ Start_parse_yield_expression
  \/ parse_function_declaration
  \/ parse_function_impl
  \/ parse_ts_function_impl
  \/ parse_function_expression
  \/ parse_method
  \/ parse_function_id
  \/ parse_function
  \/ parse_formal_parameters
  \/ parse_formal_parameter
  \/ parse_function_body
  \/ parse_yield_expression
  \/ parse_ts_type_parameters
  \/ parse_ts_return_type_annotation
  \/ parse_directives_and_statements
  \/ parse_statement
  \/ parse_assignment_expression_or_higher

Spec == Init /\ [][Next]_vars

\* =========================== ESLintConfig::override_rules (config/mod.rs)
\* a RuleEnum value: the rule (plugin and name) and the configuration it
\* carries; Hash and Eq of RuleEnum look at the rule alone
Rule(plugin, name, config) == [plugin |-> plugin, name |-> name, config |-> config]

SameRule(r, q) == r.plugin = q.plugin /\ r.name = q.name

\* the rules the linter knows, with their default configuration
all_rules ==
  {Rule("eslint", "no-loss-of-precision", "default"),
   Rule("typescript", "no-loss-of-precision", "default"),
   Rule("eslint", "no-debugger", "default")}

PluginNames == {"eslint", "typescript"}

RuleNames == {"no-loss-of-precision", "no-debugger"}

Severities == {"allow", "warn", "deny"}

\* Option<serde_json::Value>
ConfigValues == {None, "c1"}

\* ESLintRuleConfig
ESLintRuleConfigs ==
  [plugin_name : PluginNames, rule_name : RuleNames, severity : Severities,
   config : ConfigValues]

is_warn_deny(severity) == severity \in {"warn", "deny"}

is_allow(severity) == severity = "allow"

\* rule.read_json(config): the same rule, configured by config
read_json(rule, config) ==
  Rule(rule.plugin, rule.name, IF config = None THEN "default" ELSE config)

\* the configurations parse_rules can produce: one entry per key of the
\* "rules" object, at most MaxConfigRules of them
ConfigVecs ==
  {v \in UNION {[1..n -> ESLintRuleConfigs] : n \in 0..MaxConfigRules} :
     \A i, j \in 1..Len(v) :
       (v[i].plugin_name = v[j].plugin_name /\ v[i].rule_name = v[j].rule_name) => i = j}

\* self.rules.iter().into_group_map_by(|r| r.rule_name.as_str()), at name
lookup(name) == SelectSeq(rules, LAMBDA r : r.rule_name = name)

\* the keys of the lookup
LookupNames == {rules[i].rule_name : i \in 1..Len(rules)}

\* rule_configs.iter().find(|r| r.severity.is_warn_deny()), when there is one
FirstWarnDeny(rule_configs) ==
  rule_configs[CHOOSE i \in 1..Len(rule_configs) :
                 /\ is_warn_deny(rule_configs[i].severity)
                 /\ \A j \in 1..(i - 1) : ~is_warn_deny(rule_configs[j].severity)]

\* FxHashSet::remove
SetRemove(set, rule) == {r \in set : ~SameRule(r, rule)}

\* FxHashSet::replace
SetReplace(set, rule) == SetRemove(set, rule) \cup {rule}

RECURSIVE RemoveAll(_, _)
\* for rule in rules_to_remove { rules_for_override.remove(&rule); }
RemoveAll(set, seq) ==
  IF seq = <<>> THEN set ELSE RemoveAll(SetRemove(set, Head(seq)), Tail(seq))

RECURSIVE ReplaceAll(_, _)
\* for rule in rules_to_replace { rules_for_override.replace(rule); }
ReplaceAll(set, seq) ==
  IF seq = <<>> THEN set ELSE ReplaceAll(SetReplace(set, Head(seq)), Tail(seq))

\* lines 77-81
override_rules_enter ==
  /\ lint_pc = "start"
  /\ rules_to_replace' = <<>>
  /\ rules_to_remove' = <<>>
  /\ pending' = LookupNames
  /\ lint_pc' = "loop"
  /\ UNCHANGED <<rules, rules_for_override>>
  /\ UNCHANGED parser_vars

\* lines 85-108: a rule name configured once
override_rules_single ==
  /\ lint_pc = "loop"
  /\ \E name \in pending :
       /\ Len(lookup(name)) = 1
       /\ pending' = pending \ {name}
       /\ LET rule_config == lookup(name)[1]
              matches(set) == {r \in set : /\ r.name = rule_config.rule_name
                                           /\ r.plugin = rule_config.plugin_name}
          IN  IF is_warn_deny(rule_config.severity)
              THEN /\ \/ /\ matches(all_rules) = {}
                         /\ rules_to_replace' = rules_to_replace
                      \/ \E rule \in matches(all_rules) :
                           rules_to_replace' =
                             Append(rules_to_replace, read_json(rule, rule_config.config))
                   /\ UNCHANGED rules_to_remove
              ELSE /\ \/ /\ matches(rules_for_override) = {}
                         /\ rules_to_remove' = rules_to_remove
                      \/ \E rule \in matches(rules_for_override) :
                           rules_to_remove' = Append(rules_to_remove, rule)
                   /\ UNCHANGED rules_to_replace
  /\ UNCHANGED <<rules, rules_for_override, lint_pc>>
  /\ UNCHANGED parser_vars

\* lines 110-125: a rule name configured under several plugin names
override_rules_overlapping ==
  /\ lint_pc = "loop"
  /\ \E name \in pending :
       /\ Len(lookup(name)) > 1
       /\ pending' = pending \ {name}
       /\ LET rule_configs == lookup(name)
              named(set) == {r \in set : r.name = name}
              warn_deny == \E i \in 1..Len(rule_configs) :
                             is_warn_deny(rule_configs[i].severity)
              all_allow == \A i \in 1..Len(rule_configs) : is_allow(rule_configs[i].severity)
          IN  IF warn_deny
              THEN /\ \/ /\ named(rules_for_override) = {}
                         /\ rules_to_replace' = rules_to_replace
                      \/ \E rule \in named(rules_for_override) :
                           rules_to_replace' =
                             Append(rules_to_replace,
                                    read_json(rule, FirstWarnDeny(rule_configs).config))
                   /\ UNCHANGED rules_to_remove
              ELSE /\ \/ /\ ~all_allow \/ named(rules_for_override) = {}
                         /\ rules_to_remove' = rules_to_remove
                      \/ /\ all_allow
                         /\ \E rule \in named(rules_for_override) :
                              rules_to_remove' = Append(rules_to_remove, rule)
                   /\ UNCHANGED rules_to_replace
  /\ UNCHANGED <<rules, rules_for_override, lint_pc>>
  /\ UNCHANGED parser_vars

\* lines 129-134
override_rules_apply ==
  /\ lint_pc = "loop"
  /\ pending = {}
  /\ rules_for_override' = ReplaceAll(RemoveAll(rules_for_override, rules_to_remove),
                                      rules_to_replace)
  /\ lint_pc' = "done"
  /\ UNCHANGED <<rules, rules_to_replace, rules_to_remove, pending>>
  /\ UNCHANGED parser_vars

\* the parser is not running
ParserIdle ==
  /\ is_ts = FALSE
  /\ ctx = {}
  /\ cur = Unread
  /\ budget = 0
  /\ script = <<>>
  /\ errors = <<>>
  /\ fatal = NoFatal
  /\ stack = <<>>
  /\ ret = NoRet
  /\ phase = "off"

\* a configuration read by parse_rules and a rule set chosen by the caller
LintInit ==
  /\ rules \in ConfigVecs
  /\ rules_for_override \in SUBSET all_rules
  /\ rules_to_replace = <<>>
  /\ rules_to_remove = <<>>
  /\ pending = {}
  /\ lint_pc = "start"
  /\ ParserIdle

LintNext ==
  \/ override_rules_enter
  \/ override_rules_single
  \/ override_rules_overlapping
  \/ override_rules_apply

LintSpec == LintInit /\ [][LintNext]_vars

\* ================================================================ claims
\* C1: the FunctionType of a node parse_function produces is a function of
\* the FunctionKind and of whether a body was parsed, and of nothing else:
\* Declaration and DefaultExport give TSDeclareFunction without a body and
\* FunctionDeclaration with one, Expression gives
\* TSEmptyBodyFunctionExpression without a body and FunctionExpression with
\* one, TSDeclaration gives TSDeclareFunction either way.
C1_FunctionTypeTable ==
  (ret.proc = "parse_function" /\ ~ret.val.failed) =>
    LET func_kind == ret.f.args.func_kind
        has_body == ret.val.body
    IN  ret.val.type =
          IF func_kind = "TSDeclaration" THEN "TSDeclareFunction"
          ELSE IF func_kind = "Expression"
          THEN IF has_body THEN "FunctionExpression" ELSE "TSEmptyBodyFunctionExpression"
          ELSE IF has_body THEN "FunctionDeclaration" ELSE "TSDeclareFunction"

\* a TSDeclaration with a body, async, carrying modifiers
C1_Witness ==
  /\ ret.proc = "parse_function"
  /\ ~ret.val.failed
  /\ ret.f.args.func_kind = "TSDeclaration"
  /\ ret.val.body
  /\ ret.val.async
  /\ ret.val.type = "TSDeclareFunction"

\* C2: when parse_function or parse_yield_expression returns, on the success
\* path and on the failure path alike, nested or not, every flag of the
\* parser context (In, Await, Yield, Return) is what it was when the
\* production was entered.
C2_ContextRestored ==
  ret.proc \in {"parse_function", "parse_yield_expression"} => ctx = ret.f.entry_ctx

\* a non-generator function nested in a generator fails for its missing
\* body, after having switched Yield off
C2_Witness ==
  /\ ret.proc = "parse_function"
  /\ ret.val.failed
  /\ has_yield(ret.f.entry_ctx)
  /\ ~ret.f.args.generator
  /\ has_yield(ctx)
  /\ \E i \in DOMAIN stack : stack[i].proc = "parse_function"

\* C3: in a node parse_function produces the body is absent only for the
\* types TSDeclareFunction and TSEmptyBodyFunctionExpression, a
\* FunctionDeclaration or FunctionExpression always has one, and the body is
\* present exactly when the token after the signature was `{`.
C3_BodyPresence ==
  (ret.proc = "parse_function" /\ ~ret.val.failed) =>
    /\ ~ret.val.body => ret.val.type \in {"TSDeclareFunction", "TSEmptyBodyFunctionExpression"}
    /\ ret.val.type \in {"FunctionDeclaration", "FunctionExpression"} => ret.val.body
    /\ ret.val.body <=> (ret.f.l.at_body = "LCurly")

\* a function expression whose signature is followed by something else
\* than `{`
C3_Witness ==
  /\ ret.proc = "parse_function"
  /\ ~ret.val.failed
  /\ ret.f.args.func_kind = "Expression"
  /\ ret.f.l.at_body = "Semicolon"
  /\ ~ret.val.body
  /\ ret.val.type = "TSEmptyBodyFunctionExpression"

\* C4: when no `{` follows the signature, a TypeScript parse produces a
\* bodiless node (TSDeclareFunction, or TSEmptyBodyFunctionExpression for an
\* expression) and parse_function raises nothing for the missing body; a
\* non-TypeScript parse fails hard right after the context is restored,
\* before the FunctionType is derived, before semicolon insertion and before
\* the modifiers are verified.
C4_MissingBody ==
  (ret.proc = "parse_function" /\ ~ret.f.l.body) =>
    IF is_ts
    THEN /\ ~ret.val.failed
         /\ ~ret.val.body
         /\ ret.val.type = IF ret.f.args.func_kind = "Expression"
                           THEN "TSEmptyBodyFunctionExpression"
                           ELSE "TSDeclareFunction"
         /\ fatal # [kind |-> "unexpected", by |-> "parse_function"]
    ELSE /\ ret.val.failed
         /\ has_fatal_error
         /\ ret.f.l.trace = <<"type_parameters", "params", "return_type", "body", "restore">>
         /\ ret.f.l.function_type = None
         /\ \A i \in (ret.f.entry_errs + 1)..Len(errors) :
              errors[i].kind # "modifier_cannot_be_used_here"

\* a non-TypeScript declaration with a modifier that is not allowed fails
\* for its missing body
C4_Witness ==
  /\ ~is_ts
  /\ ret.proc = "parse_function"
  /\ ret.val.failed
  /\ "abstract" \in ret.f.args.modifiers
  /\ fatal = [kind |-> "unexpected", by |-> "parse_function"]

\* C5: the restricted-position check of parse_function_declaration appends
\* a diagnostic exactly when the statement context is a single-statement one
\* and the parsed declaration is async or a generator; it appends one at
\* most, the async one when the declaration is both, and it hands on the
\* node unchanged.
C5_RestrictedPosition ==
  [][Running("parse_function_declaration", "check") =>
       LET decl == ret.val
           single == Top.args.stmt_ctx # "StatementList"
       IN  /\ errors' = IF single /\ decl.async
                        THEN Append(errors, [kind |-> "async_function_declaration"])
                        ELSE IF single /\ decl.generator
                        THEN Append(errors, [kind |-> "generator_function_declaration"])
                        ELSE errors
           /\ ret'.val.decl = decl
           /\ fatal' = fatal]_vars

\* an async generator declaration as the body of an `if`
C5_Witness ==
  /\ ret.proc = "parse_function_declaration"
  /\ ret.f.args.stmt_ctx = "If"
  /\ ret.val.decl.async
  /\ ret.val.decl.generator
  /\ Len(errors) > 0
  /\ errors[Len(errors)] = [kind |-> "async_function_declaration"]

\* C6: in parse_formal_parameters every rest parameter that is followed by
\* another entry adds one rest-parameter-last diagnostic and raises no fatal
\* error; the entries before and after it are parsed up to the closing `)`
\* and the list node is returned; a rest parameter that is the last entry
\* adds none.
C6_MisplacedRest ==
  /\ [](ret.proc = "parse_formal_parameters" =>
          LET elems == ret.f.l.elems
              own == (ret.f.entry_errs + 1)..Len(errors)
          IN  /\ Cardinality({i \in own : errors[i].kind = "rest_parameter_last"})
                   = Cardinality({i \in 1..(Len(elems) - 1) : elems[i] = "rest"})
              /\ ret.val.params.items
                   = Cardinality({i \in 1..Len(elems) : elems[i] = "param"})
              /\ ret.val.params.rest <=> (\E i \in 1..Len(elems) : elems[i] = "rest"))
  /\ [][(phase = "running" /\ Top.proc = "parse_formal_parameters" /\ errors' # errors) =>
          /\ errors' = Append(errors, [kind |-> "rest_parameter_last"])
          /\ fatal' = fatal
          /\ Len(stack') >= Len(stack)]_vars

\* `(a, ...b, c)`: three entries, the closing `)`, one diagnostic, no fatal
\* error
C6_Witness ==
  /\ ret.proc = "parse_formal_parameters"
  /\ ret.f.l.elems = <<"param", "rest", "param">>
  /\ ret.f.l.closed
  /\ ret.val.params.items = 2
  /\ ~has_fatal_error
  /\ errors = <<[kind |-> "rest_parameter_last"]>>

\* C7: every step of parse_yield_expression leaves the fatal error alone;
\* its first step appends exactly one yield diagnostic, spanning 5
\* characters, when the context lacks Yield and none when it has Yield, and
\* no other step of it appends anything; the argument is parsed under Yield;
\* the node it returns has the delegate flag and the argument the tokens
\* determine, whatever the context was.
C7_YieldOutsideGenerator ==
  [][(phase = "running" /\ Top.proc = "parse_yield_expression") =>
       /\ fatal' = fatal
       /\ errors' = IF Top.pc = "start" /\ "Yield" \notin ctx
                    THEN Append(errors, [kind |-> "yield_expression", len |-> 5])
                    ELSE errors
       /\ Len(stack') > Len(stack) => "Yield" \in ctx'
       /\ Len(stack') < Len(stack) =>
            LET l == ret'.f.l
            IN  /\ ret'.val.type = "YieldExpression"
                /\ ret'.val.delegate = (~l.after_nl /\ l.delegate)
                /\ ret'.val.argument =
                     (~l.after_nl /\ (l.delegate \/ l.arg_kind \notin
                        {"Semicolon", "Eof", "RCurly", "RParen", "RBrack", "Colon", "Comma"}))]_vars

\* `yield * x` where the context lacks Yield
C7_Witness ==
  /\ ret.proc = "parse_yield_expression"
  /\ ~has_yield(ret.f.entry_ctx)
  /\ ret.val.delegate
  /\ ret.val.argument
  /\ ~has_fatal_error
  /\ Len(errors) > ret.f.entry_errs
  /\ errors[ret.f.entry_errs + 1] = [kind |-> "yield_expression", len |-> 5]

\* C8: when the current token is no binding identifier parse_function_id
\* returns an absent identifier and leaves the token in place; for a
\* Declaration at `(` it appends the expected-function-name diagnostic, for
\* a Declaration at a reserved keyword it raises the expected-identifier
\* error, and in every other case it reports nothing. An anonymous
\* default-exported function with a body is a FunctionDeclaration without
\* identifier.
C8_MissingFunctionId ==
  /\ (ret.proc = "parse_function_id"
        /\ ret.f.l.kind \notin {"Ident", "Async", "Await", "Yield"}) =>
       LET kind == ret.f.l.kind
           required == ret.f.args.func_kind = "Declaration"
           own == SubSeq(errors, ret.f.entry_errs + 1, Len(errors))
       IN  /\ ret.val = None
           /\ IF required /\ kind = "LParen"
              THEN /\ own = <<[kind |-> "expect_function_name"]>>
                   /\ fatal = ret.f.entry_fatal
                   /\ cur.kind = kind
              ELSE IF required /\ kind \in {"Function", "This"}
              THEN /\ own = <<>>
                   /\ fatal = IF ret.f.entry_fatal = NoFatal
                              THEN [kind |-> "expect_token", expected |-> "Ident"]
                              ELSE ret.f.entry_fatal
              ELSE /\ own = <<>>
                   /\ fatal = ret.f.entry_fatal
                   /\ cur.kind = kind
  /\ (ret.proc = "parse_function_impl" /\ ret.f.args.func_kind = "DefaultExport"
        /\ ~ret.val.failed /\ ret.val.body /\ ret.f.l.id_kind = "LParen") =>
       /\ ret.val.id = None
       /\ ret.val.type = "FunctionDeclaration"

\* `function () {}` as a default export: no identifier, no diagnostic
C8_Witness ==
  /\ ret.proc = "parse_function_impl"
  /\ ret.f.args.func_kind = "DefaultExport"
  /\ ret.f.l.id_kind = "LParen"
  /\ ret.val.id = None
  /\ ret.val.body
  /\ ret.val.type = "FunctionDeclaration"
  /\ errors = <<>>
  /\ ~has_fatal_error

\* C9: a call of parse_function that does not fail for a missing body
\* outside TypeScript appends one modifier-cannot-be-used-here diagnostic per
\* modifier other than declare and async, as its last step, so that they
\* follow every diagnostic of the function's parts; the node's declare flag
\* is whether the modifiers contain declare and its async and generator
\* flags are the arguments. A call that fails for the missing body verifies
\* no modifier.
C9_ModifierVerification ==
  ret.proc = "parse_function" =>
    LET m == ret.f.args.modifiers
        own == SubSeq(errors, ret.f.entry_errs + 1, Len(errors))
        report(x) == [kind |-> "modifier_cannot_be_used_here", modifier |-> x]
        expected == (IF "abstract" \in m THEN <<report("abstract")>> ELSE <<>>)
                      \o (IF "readonly" \in m THEN <<report("readonly")>> ELSE <<>>)
        before == Len(own) - Len(expected)
    IN  IF ret.val.failed
        THEN \A i \in 1..Len(own) : own[i].kind # "modifier_cannot_be_used_here"
        ELSE /\ before >= 0
             /\ SubSeq(own, before + 1, Len(own)) = expected
             /\ \A i \in 1..before : own[i].kind # "modifier_cannot_be_used_here"
             /\ ret.f.l.trace[Len(ret.f.l.trace)] = "verify"
             /\ \A i \in 1..(Len(ret.f.l.trace) - 1) : ret.f.l.trace[i] # "verify"
             /\ ret.val.declare = ("declare" \in m)
             /\ ret.val.async = ret.f.args.async
             /\ ret.val.generator = ret.f.args.generator

\* declare, abstract and readonly on a function whose body reported a
\* `yield` before
C9_Witness ==
  /\ ret.proc = "parse_function"
  /\ ~ret.val.failed
  /\ ret.f.args.modifiers = {"declare", "abstract", "readonly"}
  /\ ret.val.declare
  /\ Len(errors) = 3
  /\ errors[1] = [kind |-> "yield_expression", len |-> 5]
  /\ errors[2] = [kind |-> "modifier_cannot_be_used_here", modifier |-> "abstract"]
  /\ errors[3] = [kind |-> "modifier_cannot_be_used_here", modifier |-> "readonly"]

\* C9 as stated: every call of parse_function reports each modifier other
\* than declare and async
C9_Original ==
  ret.proc = "parse_function" =>
    Cardinality({i \in (ret.f.entry_errs + 1)..Len(errors) :
                   errors[i].kind = "modifier_cannot_be_used_here"})
      = Cardinality(ret.f.args.modifiers \ {"declare", "async"})

\* C10: when the token after `yield` is not on a new line, the delegate
\* flag is whether a `*` was consumed, and an argument is parsed exactly
\* when delegation was requested or the current token is none of `;`,
\* end of input, `}`, `)`, `]`, `:`, `,`.
C10_YieldArgument ==
  (ret.proc = "parse_yield_expression" /\ ~ret.f.l.after_nl) =>
    /\ ret.val.delegate = ret.f.l.delegate
    /\ ret.val.argument <=>
         (ret.f.l.delegate \/ ret.f.l.arg_kind \notin
            {"Semicolon", "Eof", "RCurly", "RParen", "RBrack", "Colon", "Comma"})

\* `yield *` followed by `)`: the argument is parsed all the same
C10_Witness ==
  /\ ret.proc = "parse_yield_expression"
  /\ ~ret.f.l.after_nl
  /\ ret.f.l.delegate
  /\ ret.f.l.arg_kind = "RParen"
  /\ ret.val.argument

\* C10 as stated: no argument is parsed when delegation was requested
C10_Original ==
  (ret.proc = "parse_yield_expression" /\ ~ret.f.l.after_nl) =>
    (ret.val.argument <=>
       ~(ret.f.l.delegate \/ ret.f.l.arg_kind \in
           {"Semicolon", "Eof", "RCurly", "RParen", "RBrack", "Colon", "Comma"}))

\* C11: when the token after `yield` starts on a new line,
\* parse_yield_expression returns a node without delegate flag and without
\* argument, that token, whatever its kind, is still the current token, and
\* nothing is reported beyond the diagnostic for a `yield` outside a
\* generator.
C11_YieldNewLine ==
  (ret.proc = "parse_yield_expression" /\ ret.f.l.after_nl) =>
    /\ ret.val = [type |-> "YieldExpression", delegate |-> FALSE, argument |-> FALSE]
    /\ ret.f.l.next_kind \in Kinds
    /\ cur = [kind |-> ret.f.l.next_kind, nl |-> "yes"]
    /\ errors = SubSeq(errors, 1, ret.f.entry_errs + (IF has_yield(ret.f.entry_ctx) THEN 0 ELSE 1))

\* `yield` with a `*` at the start of the next line
C11_Witness ==
  /\ ret.proc = "parse_yield_expression"
  /\ ret.f.l.after_nl
  /\ cur = [kind |-> "Star", nl |-> "yes"]
  /\ ~ret.val.delegate
  /\ ~ret.val.argument

\* C12: each part of a function that parse_function parses (type
\* parameters, formal parameters, return type, body, and the statements of
\* the body) is entered with In on, Await equal to the function's async
\* flag and Yield equal to its generator flag, whatever the enclosing
\* context.
C12_FunctionPartsContext ==
  \A i \in 2..Len(stack) :
    LET part == stack[i]
        fn == IF stack[i - 1].proc = "parse_function_body" /\ i > 2
              THEN stack[i - 2] ELSE stack[i - 1]
    IN  (/\ fn.proc = "parse_function"
         /\ \/ /\ stack[i - 1].proc = "parse_function"
               /\ part.proc \in {"parse_ts_type_parameters", "parse_formal_parameters",
                                 "parse_ts_return_type_annotation", "parse_function_body"}
            \/ /\ stack[i - 1].proc = "parse_function_body"
               /\ part.proc = "parse_directives_and_statements") =>
          /\ "In" \in part.entry_ctx
          /\ ("Await" \in part.entry_ctx) = fn.args.async
          /\ ("Yield" \in part.entry_ctx) = fn.args.generator

\* the body of a non-generator function nested in a generator
C12_Witness ==
  \E i, j \in 1..Len(stack) :
    /\ i < j
    /\ stack[i].proc = "parse_function" /\ stack[i].args.generator
    /\ stack[j].proc = "parse_function" /\ ~stack[j].args.generator
    /\ Len(stack) >= j + 2
    /\ stack[j + 1].proc = "parse_function_body"
    /\ stack[j + 2].proc = "parse_directives_and_statements"
    /\ "Yield" \notin stack[j + 2].entry_ctx
    /\ "Yield" \in stack[j].entry_ctx

\* C13: parse_function performs the automatic-semicolon-insertion step
\* exactly when the FunctionType is TSDeclareFunction or
\* TSEmptyBodyFunctionExpression; whenever it performs the step the function
\* has no body; a FunctionDeclaration or FunctionExpression never has the
\* step performed.
C13_AsiOnlyWithoutBody ==
  (ret.proc = "parse_function" /\ ~ret.val.failed) =>
    LET trace == ret.f.l.trace
        asi_ran == \E i \in 1..Len(trace) : trace[i] = "asi"
    IN  /\ asi_ran <=> ret.val.type \in {"TSDeclareFunction", "TSEmptyBodyFunctionExpression"}
        /\ asi_ran => ~ret.val.body
        /\ ret.val.type \in {"FunctionDeclaration", "FunctionExpression"} => ~asi_ran

\* C14: at a binding identifier parse_function_id checks the identifier
\* against the enclosing context with Await and Yield replaced by the
\* function's async and generator flags when the kind is Expression, and
\* against the enclosing context as it is for the other kinds; the parser's
\* context is left as it was, and the identifier is consumed and returned
\* whether or not the check reported it.
C14_IdCheckContext ==
  (ret.proc = "parse_function_id"
     /\ ret.f.l.kind \in {"Ident", "Async", "Await", "Yield"}) =>
    LET a == ret.f.args
        kind == ret.f.l.kind
        own == (IF a.async THEN {"Await"} ELSE {}) \cup (IF a.generator THEN {"Yield"} ELSE {})
        against == IF a.func_kind = "Expression"
                   THEN (ret.f.entry_ctx \ {"Await", "Yield"}) \cup own
                   ELSE ret.f.entry_ctx
        reported == \/ kind = "Await" /\ "Await" \in against
                    \/ kind = "Yield" /\ "Yield" \in against
    IN  /\ ret.f.l.checked = against
        /\ Len(errors) = ret.f.entry_errs + (IF reported THEN 1 ELSE 0)
        /\ ctx = ret.f.entry_ctx
        /\ ret.val = kind
        /\ cur = Unread
        /\ fatal = ret.f.entry_fatal

\* a generator expression named `yield` where the enclosing context
\* allows the name
C14_Witness ==
  /\ ret.proc = "parse_function_id"
  /\ ret.f.args.func_kind = "Expression"
  /\ ret.f.args.generator
  /\ ret.f.l.kind = "Yield"
  /\ "Yield" \notin ctx
  /\ ret.val = "Yield"
  /\ errors = <<[kind |-> "identifier_generator", name |-> "yield"]>>

\* C15: after override_rules, a rule name configured under several plugin
\* names of which one at least is warn or deny has a rule of that name in
\* the rule set, carrying the configuration of a warn/deny entry; a rule
\* name all of whose several entries are allow has no rule of that name in
\* the rule set; whatever the rule set held before.
C15_OverlappingRuleNames ==
  lint_pc = "done" =>
    \A name \in RuleNames :
      LET entries == {i \in 1..Len(rules) : rules[i].rule_name = name}
          enabling == {i \in entries : rules[i].severity \in {"warn", "deny"}}
      IN  Cardinality(entries) > 1 =>
            IF enabling # {}
            THEN \E r \in rules_for_override, i \in enabling :
                   /\ r.name = name
                   /\ r.config = IF rules[i].config = None THEN "default" ELSE rules[i].config
            ELSE \A r \in rules_for_override : r.name # name

============================================================================
